---- MODULE Spec2Model ----
(***************************************************************************)
(* Wind Load Calculator (src/wind_analysis.py): the wind profile engine    *)
(* calculate_wind_load, the parameter-file reader read_parameter_file and  *)
(* the Streamlit script that drives them, one script run per interaction.  *)
(*                                                                         *)
(* Numbers.  A Python/numpy float is a record [k, m, e]:                   *)
(*   k = "fin"  : the finite value m * 10^e, a decimal floating-point      *)
(*                number of six significant digits (100000 <= |m| < 10^6,  *)
(*                or m = 0 and e = 0), results truncated towards zero;     *)
(*   k = "inf"  : an infinity, m = its sign (1 or -1);                     *)
(*   k = "nan"  : not-a-number;                                            *)
(*   k = "cplx" : a Python complex (a negative base raised to 0.07).       *)
(* Strings are sequences of one-character strings.                         *)
(***************************************************************************)
EXTENDS Integers, Sequences, FiniteSets, TLC

\* ------------------------------------------------------------------------
\* Floats
\* ------------------------------------------------------------------------

Inf(s) == [k |-> "inf", m |-> s, e |-> 0]
NaN == [k |-> "nan", m |-> 0, e |-> 0]
Cplx == [k |-> "cplx", m |-> 0, e |-> 0]
Zero == [k |-> "fin", m |-> 0, e |-> 0]

Sign(n) == IF n > 0 THEN 1 ELSE IF n < 0 THEN -1 ELSE 0
Abs(n) == IF n < 0 THEN -n ELSE n

RECURSIVE Pow10(_)
Pow10(n) == IF n = 0 THEN 1 ELSE 10 * Pow10(n - 1)

\* m * 10^e for m > 0, with the mantissa brought to six digits
RECURSIVE NormPos(_, _)
NormPos(m, e) ==
  IF m >= 1000000 THEN NormPos(m \div 10, e + 1)
  ELSE IF m < 100000 THEN NormPos(m * 10, e - 1)
  ELSE [k |-> "fin", m |-> m, e |-> e]

\* the float nearest below (in magnitude) to m * 10^e
Norm(m, e) ==
  IF m = 0 THEN Zero
  ELSE [NormPos(Abs(m), e) EXCEPT !.m = Sign(m) * @]

\* v thousandths as a float: Fin(1225) is 1.225
Fin(v) == Norm(v, -3)

\* a whole number n as a float
Num(n) == Norm(n, 0)

IsFin(a) == a.k = "fin"

\* a < b for finite floats
FLess(a, b) ==
  IF Sign(a.m) /= Sign(b.m) THEN Sign(a.m) < Sign(b.m)
  ELSE IF a.m = 0 THEN FALSE
  ELSE IF a.m > 0 THEN a.e < b.e \/ (a.e = b.e /\ a.m < b.m)
  ELSE a.e > b.e \/ (a.e = b.e /\ a.m < b.m)

\* floor(a * b / 1000) for 0 <= a, b < 10^6, no intermediate beyond 32 bits
MulHi(a, b) == a * (b \div 1000) + (a * (b % 1000)) \div 1000

\* floor(a * 10^6 / b) for 0 <= a < 10^6, 0 < b < 10^6, by long division
LongDiv(a, b) ==
  ((a * 1000) \div b) * 1000 + (((a * 1000) % b) * 1000) \div b

\* IEEE multiplication
FMul(a, b) ==
  IF a.k = "nan" \/ b.k = "nan" THEN NaN
  ELSE IF a.k = "cplx" \/ b.k = "cplx" THEN Cplx
  ELSE IF a.k = "inf" \/ b.k = "inf"
       THEN IF Sign(a.m) * Sign(b.m) = 0 THEN NaN ELSE Inf(Sign(a.m) * Sign(b.m))
  ELSE Norm(Sign(a.m) * Sign(b.m) * MulHi(Abs(a.m), Abs(b.m)), a.e + b.e + 3)

\* numpy true division: x / 0 is an infinity, 0 / 0 is nan, no exception
FDiv(a, b) ==
  IF a.k = "nan" \/ b.k = "nan" THEN NaN
  ELSE IF a.k = "cplx" \/ b.k = "cplx" THEN Cplx
  ELSE IF a.k = "inf" THEN (IF b.k = "inf" THEN NaN
                            ELSE Inf(a.m * (IF b.m < 0 THEN -1 ELSE 1)))
  ELSE IF b.k = "inf" THEN Zero
  ELSE IF b.m = 0 THEN (IF a.m = 0 THEN NaN ELSE Inf(Sign(a.m)))
  ELSE Norm(Sign(a.m) * Sign(b.m) * LongDiv(Abs(a.m), Abs(b.m)), a.e - b.e - 6)

\* hi + lo for finite floats with hi.e >= lo.e: lo loses the digits below hi's
AddAligned(hi, lo) ==
  IF hi.e - lo.e > 6 THEN hi
  ELSE Norm(hi.m + Sign(lo.m) * (Abs(lo.m) \div Pow10(hi.e - lo.e)), hi.e)

\* IEEE addition
FAdd(a, b) ==
  IF a.k = "nan" \/ b.k = "nan" THEN NaN
  ELSE IF a.k = "cplx" \/ b.k = "cplx" THEN Cplx
  ELSE IF a.k = "inf" THEN (IF b.k = "inf" /\ b.m /= a.m THEN NaN ELSE a)
  ELSE IF b.k = "inf" THEN b
  ELSE IF a.m = 0 THEN b
  ELSE IF b.m = 0 THEN a
  ELSE IF a.e >= b.e THEN AddAligned(a, b)
  ELSE AddAligned(b, a)

\* The transcendental functions work on millionths (fixed point).

\* floor(a * b / 10^6) for |a|, |b| below 1.4 million
MulMicro(a, b) == (a * (b \div 1000) + (a * (b % 1000)) \div 1000) \div 1000

\* ln u for u in [10^6, 2 * 10^6) millionths: 2 * atanh((u - 1) / (u + 1))
LnSeries(u) ==
  LET a == u - 1000000
      b == u + 1000000
      t == ((a * 1000) \div b) * 1000 + ((((a * 1000) % b) \div 2) * 1000) \div (b \div 2)
      t2 == MulMicro(t, t)
      t3 == MulMicro(t2, t)
      t5 == MulMicro(t3, t2)
      t7 == MulMicro(t5, t2)
      t9 == MulMicro(t7, t2)
  IN 2 * (t + t3 \div 3 + t5 \div 5 + t7 \div 7 + t9 \div 9)

\* ln u for u >= 10^6 millionths, halving down to [1, 2)
RECURSIVE LnMicro(_)
LnMicro(u) == IF u >= 2000000 THEN 693147 + LnMicro(u \div 2) ELSE LnSeries(u)

\* ln a in millionths, for a finite a > 0: ln(m / 10^5) + (e + 5) * ln 10
LnOf(a) == LnMicro(a.m * 10) + (a.e + 5) * 2302585

\* exp y in millionths, for y millionths with |y| < 1: seven terms
ExpMicro(y) ==
  LET y2 == MulMicro(y, y)
      y3 == MulMicro(y2, y)
      y4 == MulMicro(y3, y)
      y5 == MulMicro(y4, y)
      y6 == MulMicro(y5, y)
  IN 1000000 + y + y2 \div 2 + y3 \div 6 + y4 \div 24 + y5 \div 120 + y6 \div 720

\* np.log, elementwise: log 0 = -inf, log of a negative = nan, no exception
NpLog(a) ==
  IF a.k = "nan" \/ a.k = "cplx" THEN NaN
  ELSE IF a.k = "inf" THEN (IF a.m > 0 THEN Inf(1) ELSE NaN)
  ELSE IF a.m = 0 THEN Inf(-1)
  ELSE IF a.m < 0 THEN NaN
  ELSE Norm(LnOf(a), -6)

\* Python float ** 0.07: 0.0 ** e = 0.0, a negative base gives a complex
Pow007(a) ==
  IF a.k /= "fin" THEN a
  ELSE IF a.m = 0 THEN Zero
  ELSE IF a.m < 0 THEN Cplx
  ELSE Norm(ExpMicro((7 * LnOf(a)) \div 100), -6)

\* ------------------------------------------------------------------------
\* Strings (sequences of one-character strings) and Python's str methods
\* ------------------------------------------------------------------------

Whitespace == {" ", "\n", "\t", "\r"}

\* a byte that is not valid UTF-8 anywhere in a payload
BadByte == "xFF"

\* str.strip()
RECURSIVE LStrip(_)
LStrip(s) == IF s /= <<>> /\ Head(s) \in Whitespace THEN LStrip(Tail(s)) ELSE s

RECURSIVE RStrip(_)
RStrip(s) ==
  IF s /= <<>> /\ s[Len(s)] \in Whitespace THEN RStrip(SubSeq(s, 1, Len(s) - 1)) ELSE s

Strip(s) == RStrip(LStrip(s))

\* str.replace(old, new) for one-character old and new
Replace(s, old, new) == [i \in 1..Len(s) |-> IF s[i] = old THEN new ELSE s[i]]

\* str.split(sep) for a one-character sep: always at least one part
RECURSIVE SplitFrom(_, _, _)
SplitFrom(s, sep, cur) ==
  IF s = <<>> THEN <<cur>>
  ELSE IF Head(s) = sep THEN <<cur>> \o SplitFrom(Tail(s), sep, <<>>)
  ELSE SplitFrom(Tail(s), sep, Append(cur, Head(s)))

Split(s, sep) == SplitFrom(s, sep, <<>>)

\* bytes.decode('utf-8'): fails on an invalid byte
DecodeOk(bytes) == \A i \in 1..Len(bytes) : bytes[i] /= BadByte

\* str.lower() on the letters of the float literals
Lower(c) ==
  CASE c = "I" -> "i" [] c = "N" -> "n" [] c = "F" -> "f" [] c = "A" -> "a"
    [] c = "T" -> "t" [] c = "Y" -> "y" [] c = "E" -> "e" [] OTHER -> c

LowerStr(s) == [i \in 1..Len(s) |-> Lower(s[i])]

DigitSeq == <<"0", "1", "2", "3", "4", "5", "6", "7", "8", "9">>
Digits == {DigitSeq[i] : i \in 1..Len(DigitSeq)}
DigitVal(c) == (CHOOSE i \in 1..Len(DigitSeq) : DigitSeq[i] = c) - 1

\* the length of the longest prefix of digits
RECURSIVE DigitRun(_)
DigitRun(s) == IF s = <<>> \/ Head(s) \notin Digits THEN 0 ELSE 1 + DigitRun(Tail(s))

\* the number a sequence of digits writes
RECURSIVE NatOf(_)
NatOf(ds) ==
  IF ds = <<>> THEN 0 ELSE 10 * NatOf(SubSeq(ds, 1, Len(ds) - 1)) + DigitVal(ds[Len(ds)])

\* float(tok): [ok, val]; ok = FALSE is Python's ValueError.
\* Accepts [sign] digits [. digits] [e [sign] digits], [sign] . digits ...,
\* and [sign] inf | infinity | nan in any case, with surrounding whitespace.
\* The scan goes left to right, one operator per part of the literal.
NotAFloat == [ok |-> FALSE, val |-> NaN]

\* the exponent's digits: at least one, and nothing after them
FloatExpDigits(mant, e10, expSgn, ds) ==
  IF ds = <<>> \/ DigitRun(ds) /= Len(ds) THEN NotAFloat
  ELSE [ok |-> TRUE, val |-> Norm(mant, e10 + expSgn * NatOf(ds))]

\* after the mantissa (the value mant * 10^e10): the end, or e / E and an
\* optionally signed exponent
FloatExp(mant, e10, rest) ==
  IF rest = <<>> THEN [ok |-> TRUE, val |-> Norm(mant, e10)]
  ELSE IF Head(rest) \notin {"e", "E"} THEN NotAFloat
  ELSE IF Tail(rest) /= <<>> /\ Head(Tail(rest)) \in {"+", "-"}
    THEN FloatExpDigits(mant, e10, IF Head(Tail(rest)) = "-" THEN -1 ELSE 1,
                        Tail(Tail(rest)))
  ELSE FloatExpDigits(mant, e10, 1, Tail(rest))

\* the fraction's digits (nf of them) after the point
FloatFrac(sgn, ip, ni, afterDot, nf) ==
  IF ni + nf = 0 THEN NotAFloat
  ELSE FloatExp(sgn * (ip * Pow10(nf) + NatOf(SubSeq(afterDot, 1, nf))), -nf,
                SubSeq(afterDot, nf + 1, Len(afterDot)))

\* after the integer digits (ni of them, writing ip): an optional point
FloatPoint(sgn, ip, ni, rest) ==
  IF rest /= <<>> /\ Head(rest) = "."
    THEN FloatFrac(sgn, ip, ni, Tail(rest), DigitRun(Tail(rest)))
  ELSE FloatFrac(sgn, ip, ni, rest, 0)

\* after the sign: a special value, or the integer digits
FloatBody(sgn, body) ==
  IF LowerStr(body) \in {<<"i", "n", "f">>, <<"i", "n", "f", "i", "n", "i", "t", "y">>}
    THEN [ok |-> TRUE, val |-> Inf(sgn)]
  ELSE IF LowerStr(body) = <<"n", "a", "n">> THEN [ok |-> TRUE, val |-> NaN]
  ELSE FloatPoint(sgn, NatOf(SubSeq(body, 1, DigitRun(body))), DigitRun(body),
                  SubSeq(body, DigitRun(body) + 1, Len(body)))

FloatSigned(s) ==
  IF s /= <<>> /\ Head(s) \in {"+", "-"}
    THEN FloatBody(IF Head(s) = "-" THEN -1 ELSE 1, Tail(s))
  ELSE FloatBody(1, s)

PyFloat(tok) == FloatSigned(Strip(tok))

\* the non-empty elements of a sequence of strings, in order
RECURSIVE NonEmpty(_)
NonEmpty(ps) ==
  IF ps = <<>> THEN <<>>
  ELSE IF Head(ps) /= <<>> THEN <<Head(ps)>> \o NonEmpty(Tail(ps))
  ELSE NonEmpty(Tail(ps))

\* ------------------------------------------------------------------------
\* read_parameter_file
\* ------------------------------------------------------------------------

\* Parts without its filter: the empty parts are kept
Parts_KeepEmpty(bytes) ==
  LET raw == Strip(bytes)
      fields == Split(Replace(raw, ";", ","), ",")
  IN [i \in 1..Len(fields) |-> Strip(fields[i])]

\* parts = [p.strip() for p in raw.replace(';', ',').split(',') if p.strip() != '']
Parts(bytes) ==
  LET raw == Strip(bytes)
      fields == Split(Replace(raw, ";", ","), ",")
  IN NonEmpty([i \in 1..Len(fields) |-> Strip(fields[i])])

\* read_parameter_file returning the tuple as (H, omega_rpm, g, rho_air)
read_parameter_file_Reordered(bytes) ==
  IF ~DecodeOk(bytes) THEN [ok |-> FALSE, error |-> "read", params |-> <<>>]
  ELSE LET parts == Parts(bytes)
           floats == [i \in 1..Len(parts) |-> PyFloat(parts[i])]
       IN IF Len(parts) /= 4 THEN [ok |-> FALSE, error |-> "count", params |-> <<>>]
          ELSE IF \E i \in 1..4 : ~floats[i].ok
            THEN [ok |-> FALSE, error |-> "read", params |-> <<>>]
          ELSE [ok |-> TRUE, error |-> "none",
                params |-> <<floats[1].val, floats[4].val, floats[2].val, floats[3].val>>]

\* The return value and the st.error it reports:
\*   error = "count": the "exactly 4 numeric values" message, returns None;
\*   error = "read" : the except branch ("Error reading file"), returns None;
\*   error = "none" : the tuple (H, g, rho_air, omega_rpm).
read_parameter_file(bytes) ==
  IF ~DecodeOk(bytes) THEN [ok |-> FALSE, error |-> "read", params |-> <<>>]
  ELSE LET parts == Parts(bytes)
           floats == [i \in 1..Len(parts) |-> PyFloat(parts[i])]
       IN IF Len(parts) /= 4 THEN [ok |-> FALSE, error |-> "count", params |-> <<>>]
          ELSE IF \E i \in 1..4 : ~floats[i].ok
            THEN [ok |-> FALSE, error |-> "read", params |-> <<>>]
          ELSE [ok |-> TRUE, error |-> "none", params |-> [i \in 1..4 |-> floats[i].val]]

\* ------------------------------------------------------------------------
\* calculate_wind_load
\* ------------------------------------------------------------------------

\* the keyword defaults of the signature, in thousandths
Ax == 303300
Ay == 592500
z0Default == 10
c_dir == 1000
c_season == 1000
c0 == 1000
cp == 1200
\* kl = 1
kl == 1000

\* int(x): truncation towards zero; nan and the infinities raise
PyInt(a) ==
  IF a.k = "nan" THEN [err |-> "ValueError", n |-> 0]
  ELSE IF a.k = "inf" THEN [err |-> "OverflowError", n |-> 0]
  ELSE [err |-> "none",
        n |-> IF a.e >= 0 THEN a.m * Pow10(a.e)
              ELSE IF a.e < -9 THEN 0
              ELSE Sign(a.m) * (Abs(a.m) \div Pow10(-a.e))]

\* np.arange(1, n): the last level is missing
Arange1_Exclusive(n) == [i \in 1..(n - 1) |-> i]

\* np.arange(1, n + 1): empty when n < 1
Arange1(n) == [i \in 1..n |-> i]

\* v_b0 = 100 / 3.6
v_b0 == FDiv(Num(100), Fin(3600))

\* vb = c_dir * c_season * v_b0
vb == FMul(FMul(Fin(c_dir), Fin(c_season)), v_b0)

\* kr = 0.19 * (z0 / 0.05) ** 0.07
Kr(z0) == FMul(Fin(190), Pow007(FDiv(z0, Fin(50))))

\* np.log(z / z0) at one height level
LogRatio(zi, z0) == NpLog(FDiv(Num(zi), z0))

\* cr = kr * np.log(z / z0), at one height level
CrAt(zi, z0) == FMul(Kr(z0), LogRatio(zi, z0))

\* vm = cr * c0 * vb, at one height level
VmAt(zi, z0) == FMul(FMul(CrAt(zi, z0), Fin(c0)), vb)

\* Iv = kl / (c0 * np.log(z / z0)), at one height level
IvAt(zi, z0) == FDiv(Fin(kl), FMul(Fin(c0), LogRatio(zi, z0)))

\* q_p = 0.5 * rho_air * (vm ** 2) * (1 + 7 * Iv), at one height level
QpAt(vmi, Ivi, rho_air) ==
  FMul(FMul(FMul(Fin(500), rho_air), FMul(vmi, vmi)),
       FAdd(Num(1), FMul(Num(7), Ivi)))

\* Fwy = q_p * cp * Ay / 1e3 and Fwx = q_p * cp * Ax / 1e3, with A = Ay or Ax
LoadAt(qp, A) == FDiv(FMul(FMul(qp, Fin(cp)), Fin(A)), Num(1000))

NoBundle ==
  [z |-> <<>>, vm |-> <<>>, vm_max |-> NaN, Fwy |-> <<>>, Fwx |-> <<>>,
   q_p |-> <<>>, Iv |-> <<>>]

\* vm[0] in place of vm[-1]
VmMax_First(vm) == vm[1]

\* vm_max = vm[-1]
VmMax(vm) == vm[Len(vm)]

\* lines 178-180: the two load arrays and the dictionary that is returned
Bundle(z, vm, Iv, q_p) ==
  [z |-> z, vm |-> vm, vm_max |-> VmMax(vm),
   Fwy |-> [i \in 1..Len(z) |-> LoadAt(q_p[i], Ay)],
   Fwx |-> [i \in 1..Len(z) |-> LoadAt(q_p[i], Ax)],
   q_p |-> q_p, Iv |-> Iv]

\* The outcome of one invocation:
\*   status = "ok" and the returned bundle, or the exception that it raises;
\*   built = the arrays that exist when it returns or raises.

\* lines 174-180, from the arrays z and vm: Iv, q_p, the loads, the return
FromVm(z, vm, Iv, rho_air) ==
  [status |-> "ok",
   built |-> {"z", "cr", "vm", "Iv", "q_p", "Fwy", "Fwx"},
   bundle |-> Bundle(z, vm, Iv, [i \in 1..Len(z) |-> QpAt(vm[i], Iv[i], rho_air)])]

\* lines 165-171, from the array z: cr and vm, then vm[-1], which raises
\* IndexError on an empty array
FromZ(z, vm, rho_air, z0) ==
  IF Len(vm) = 0
    THEN [status |-> "IndexError", built |-> {"z", "cr", "vm"}, bundle |-> NoBundle]
  ELSE FromVm(z, vm, [i \in 1..Len(z) |-> IvAt(z[i], z0)], rho_air)

\* line 163: int(H) and the height levels
FromH(n, rho_air, z0) ==
  IF n.err /= "none" THEN [status |-> n.err, built |-> {}, bundle |-> NoBundle]
  ELSE FromZ(Arange1(n.n), [i \in 1..n.n |-> VmAt(i, z0)], rho_air, z0)

\* calculate_wind_load with g wired into the pressure: rho_air * g / 9.81
calculate_wind_load_UsesG(H, omega, g, rho_air, z0) ==
  FromH(PyInt(H), FMul(rho_air, FDiv(g, Fin(9810))), z0)

\* omega and g are parameters of the signature
calculate_wind_load(H, omega, g, rho_air, z0) == FromH(PyInt(H), rho_air, z0)

\* ------------------------------------------------------------------------
\* The script: one run per interaction
\* ------------------------------------------------------------------------

VARIABLES
  mode,        \* the st.radio selection
  inH,         \* the four st.number_input values of the manual mode
  inOmegaRpm,
  inG,
  inRho,
  uploaded,    \* the st.file_uploader value: [present, data]
  run,         \* what the last script run put on the page, and how it ended
  call         \* the last invocation of calculate_wind_load: [made, args, ret]

vars == <<mode, inH, inOmegaRpm, inG, inRho, uploaded, run, call>>

Manual == "Manual Input"
Upload == "Upload Parameters File"

\* the value= defaults of the four number inputs, in thousandths
HDefault == 66700
OmegaRpmDefault == 2000
GDefault == 9810
RhoDefault == 1225
\* np.pi
Pi == Norm(314159, -5)

NoFile == [present |-> FALSE, data |-> <<>>]

NoRet == [status |-> "none", built |-> {}, bundle |-> NoBundle]
NoArgs == [H |-> NaN, omega |-> NaN, g |-> NaN, rho_air |-> NaN, z0 |-> NaN]
NoCall == [made |-> FALSE, args |-> NoArgs, ret |-> NoRet]

\* one invocation, with the arguments it received and its outcome
Invoke(H, omega, g, rho_air, z0) ==
  [made |-> TRUE,
   args |-> [H |-> H, omega |-> omega, g |-> g, rho_air |-> rho_air, z0 |-> z0],
   ret |-> calculate_wind_load(H, omega, g, rho_air, z0)]

\* omega = omega_rpm * 2 * np.pi / 60
OmegaOf(omega_rpm) == FDiv(FMul(FMul(omega_rpm, Num(2)), Pi), Num(60))

\* f"{x:.2f}": the text, as the number of hundredths it shows (rounded), or
\* "nan" / "inf" as such
Format2f(a) ==
  IF a.k /= "fin" THEN [text |-> a.k, hundredths |-> 0]
  ELSE [text |-> "number",
        hundredths |->
          IF a.e >= -2 THEN a.m * Pow10(a.e + 2)
          ELSE IF a.e < -11 THEN 0
          ELSE Sign(a.m) * ((Abs(a.m) + 5 * Pow10(-a.e - 3)) \div Pow10(-a.e - 2))]

\* the metrics read at index 0 in place of -1
Metrics_First(b) == <<Format2f(b.vm_max), Format2f(b.Fwx[1]), Format2f(b.Fwy[1])>>

\* the three col.metric values
Metrics(b) ==
  <<Format2f(b.vm_max), Format2f(b.Fwx[Len(b.Fwx)]), Format2f(b.Fwy[Len(b.Fwy)])>>

\* the page before any branch has written to it
BlankPage(trigger) ==
  [trigger |-> trigger, errors |-> {}, info |-> FALSE, button |-> FALSE,
   success |-> FALSE, metrics |-> <<>>, chart |-> FALSE, about |-> TRUE,
   exc |-> "none", calls |-> 0, params |-> <<>>]

\* lines 311-317 and 341-347: after the invocation, the success message, the
\* metrics and the chart; an exception ends the run where it is raised
ShowResults(page, c) ==
  IF c.ret.status /= "ok"
    THEN [run |-> [page EXCEPT !.exc = c.ret.status, !.about = FALSE, !.calls = 1],
          call |-> c]
  ELSE [run |-> [page EXCEPT !.calls = 1, !.success = TRUE,
                             !.metrics = Metrics(c.ret.bundle), !.chart = TRUE],
        call |-> c]

\* lines 310 and 340: calculate_wind_load(int(H), omega, g, rho_air), with n
\* the caller's int(H)
CallEngine(page, n, omega_rpm, g, rho_air) ==
  IF n.err /= "none"
    THEN [run |-> [page EXCEPT !.exc = n.err, !.about = FALSE], call |-> NoCall]
  ELSE ShowResults(page, Invoke(Num(n.n), OmegaOf(omega_rpm), g, rho_air, Fin(z0Default)))

\* the body of "if st.button(...)", in both branches
Calculate(page, H, omega_rpm, g, rho_air) ==
  CallEngine(page, PyInt(H), omega_rpm, g, rho_air)

\* mode == "Manual Input"
ManualBranch(trigger, H, omega_rpm, g, rho_air, pressed) ==
  LET page == [BlankPage(trigger) EXCEPT !.info = TRUE, !.button = TRUE]
  IN IF pressed THEN Calculate(page, H, omega_rpm, g, rho_air)
     ELSE [run |-> page, call |-> NoCall]

\* WithParams that calculates as soon as the file is parsed, button or not
WithParams_AutoCalculate(page, r, pressed) ==
  IF ~r.ok THEN [run |-> [page EXCEPT !.errors = {r.error}], call |-> NoCall]
  ELSE Calculate([page EXCEPT !.info = TRUE, !.button = TRUE, !.params = r.params],
                 r.params[1], r.params[4], r.params[2], r.params[3])

\* lines 334-347: with r what read_parameter_file returned
WithParams(page, r, pressed) ==
  IF ~r.ok THEN [run |-> [page EXCEPT !.errors = {r.error}], call |-> NoCall]
  ELSE IF pressed
    THEN Calculate([page EXCEPT !.info = TRUE, !.button = TRUE, !.params = r.params],
                   r.params[1], r.params[4], r.params[2], r.params[3])
  ELSE [run |-> [page EXCEPT !.info = TRUE, !.button = TRUE, !.params = r.params],
        call |-> NoCall]

\* mode == "Upload Parameters File"
UploadBranch(trigger, file, pressed) ==
  IF ~file.present THEN [run |-> BlankPage(trigger), call |-> NoCall]
  ELSE WithParams(BlankPage(trigger), read_parameter_file(file.data), pressed)

\* one run of the script, top to bottom
ScriptRun(trigger, m, H, omega_rpm, g, rho_air, file, pressed) ==
  IF m = Manual THEN ManualBranch(trigger, H, omega_rpm, g, rho_air, pressed)
  ELSE UploadBranch(trigger, file, pressed)

\* ------------------------------------------------------------------------
\* Inputs
\* ------------------------------------------------------------------------

\* the tallest structure entered by hand, in metres
MaxH == 4
\* the most fields (separated texts) of an uploaded payload
MaxFields == 5

\* st.number_input(min_value=1.0): the default and 1.0, 1.5, ..., MaxH
ManualH == {Fin(HDefault)} \cup {Fin(h * 500) : h \in 2..(2 * MaxH)}
\* st.number_input(min_value=0.0)
ManualOmegaRpm == {Fin(OmegaRpmDefault), Fin(0)}
\* no min_value: any number, zero and negatives included
ManualG == {Fin(GDefault), Fin(1620)}
ManualRho == {Fin(RhoDefault), Fin(0), Fin(-1225)}

\* The texts between the separators of a payload: HFields for the first,
\* RestFields for the others.  The numbers they write stay where the fixed
\* point has room for every product of the engine (below 2^31 thousandths).
HFields ==
  { <<"3", ".", "7">>, <<"0", ".", "5">>, <<"n", "a", "n">>, <<"I", "n", "f">>,
    <<"-", "2">>, <<"a", "b", "c">>, <<>>, <<" ", "1", "e", "0", "\n">>,
    <<"3", BadByte>> }
RestFields ==
  { <<"1", ".", "6", "2">>, <<"1", ".", "2", "2", "5">>, <<"2", ".", "0">>,
    <<"x">>, <<" ">> }

\* how a payload separates its fields: all commas, or semicolons and commas
SepStyles == {"comma", "mixed"}
SepAt(i, style) == IF style = "mixed" /\ i % 2 = 1 THEN ";" ELSE ","

RECURSIVE JoinFrom(_, _, _)
JoinFrom(fields, i, style) ==
  IF i > Len(fields) THEN <<>>
  ELSE IF i = Len(fields) THEN fields[i]
  ELSE fields[i] \o <<SepAt(i, style)>> \o JoinFrom(fields, i + 1, style)

Join(fields, style) == JoinFrom(fields, 1, style)

\* the uploaded payloads: no field (an empty file) up to MaxFields fields
Payloads ==
  {<<>>} \cup
  { Join(<<h>> \o r, style) :
      h \in HFields,
      r \in UNION {[1..n -> RestFields] : n \in 0..(MaxFields - 1)},
      style \in SepStyles }

\* arguments of direct invocations of the engine
EngineH == {Fin(h * 500) : h \in (-2)..(2 * MaxH + 1)} \cup {NaN, Inf(1)}
EngineRho == {Fin(RhoDefault), Fin(500), Fin(0), Fin(-1225)}
EngineZ0 == {Fin(z0Default), Fin(300), Fin(1000), Fin(2000), Fin(0), Fin(-10)}
EngineOmega == {OmegaOf(Fin(OmegaRpmDefault)), Fin(0)}
EngineG == {Fin(GDefault), Fin(1620)}

\* ------------------------------------------------------------------------
\* The session: Init is the first script run, each action is one interaction
\* followed by the rerun of the whole script
\* ------------------------------------------------------------------------

\* the state after a run: the widgets' values and what the run produced
AfterRun(m, H, omega_rpm, g, rho_air, file, out) ==
  /\ mode' = m
  /\ inH' = H
  /\ inOmegaRpm' = omega_rpm
  /\ inG' = g
  /\ inRho' = rho_air
  /\ uploaded' = file
  /\ run' = out.run
  /\ call' = out.call

Rerun(trigger, m, H, omega_rpm, g, rho_air, file, pressed) ==
  AfterRun(m, H, omega_rpm, g, rho_air, file,
           ScriptRun(trigger, m, H, omega_rpm, g, rho_air, file, pressed))

\* the first run: the manual mode with the widgets' defaults, nothing pressed
FirstRun ==
  ScriptRun("load", Manual, Fin(HDefault), Fin(OmegaRpmDefault), Fin(GDefault),
            Fin(RhoDefault), NoFile, FALSE)

Init ==
  /\ mode = Manual
  /\ inH = Fin(HDefault)
  /\ inOmegaRpm = Fin(OmegaRpmDefault)
  /\ inG = Fin(GDefault)
  /\ inRho = Fin(RhoDefault)
  /\ uploaded = NoFile
  /\ run = FirstRun.run
  /\ call = FirstRun.call

\* st.radio: the widgets of the branch that is left are dropped, those of the
\* branch that is entered start from their defaults
SelectMode ==
  \E m \in {Manual, Upload} :
    /\ m /= mode
    /\ Rerun("mode", m, Fin(HDefault), Fin(OmegaRpmDefault), Fin(GDefault),
             Fin(RhoDefault), NoFile, FALSE)

SetH ==
  \E v \in ManualH :
    /\ mode = Manual /\ v /= inH
    /\ Rerun("edit", mode, v, inOmegaRpm, inG, inRho, uploaded, FALSE)

SetOmegaRpm ==
  \E v \in ManualOmegaRpm :
    /\ mode = Manual /\ v /= inOmegaRpm
    /\ Rerun("edit", mode, inH, v, inG, inRho, uploaded, FALSE)

SetG ==
  \E v \in ManualG :
    /\ mode = Manual /\ v /= inG
    /\ Rerun("edit", mode, inH, inOmegaRpm, v, inRho, uploaded, FALSE)

SetRho ==
  \E v \in ManualRho :
    /\ mode = Manual /\ v /= inRho
    /\ Rerun("edit", mode, inH, inOmegaRpm, inG, v, uploaded, FALSE)

\* the "Calculate Wind Load" button of the manual branch
PressCalculateManual ==
  /\ mode = Manual
  /\ run.button
  /\ Rerun("button", mode, inH, inOmegaRpm, inG, inRho, uploaded, TRUE)

UploadFile ==
  /\ mode = Upload
  /\ ~uploaded.present
  /\ \E bytes \in Payloads :
       Rerun("upload", mode, inH, inOmegaRpm, inG, inRho,
             [present |-> TRUE, data |-> bytes], FALSE)

RemoveFile ==
  /\ mode = Upload /\ uploaded.present
  /\ Rerun("remove", mode, inH, inOmegaRpm, inG, inRho, NoFile, FALSE)

\* the "Calculate Wind Load" button of the upload branch: on the page only
\* when the last run parsed the file
PressCalculateUpload ==
  /\ mode = Upload
  /\ run.button
  /\ Rerun("button", mode, inH, inOmegaRpm, inG, inRho, uploaded, TRUE)

Next ==
  \/ SelectMode
  \/ SetH
  \/ SetOmegaRpm
  \/ SetG
  \/ SetRho
  \/ PressCalculateManual
  \/ UploadFile
  \/ RemoveFile
  \/ PressCalculateUpload

Spec == Init /\ [][Next]_vars

\* ------------------------------------------------------------------------
\* The engine on its own: a caller that invokes calculate_wind_load directly,
\* changing one argument (or the ignored pair) between invocations
\* ------------------------------------------------------------------------

EngineInit ==
  /\ mode = Manual
  /\ inH = Fin(HDefault)
  /\ inOmegaRpm = Fin(OmegaRpmDefault)
  /\ inG = Fin(GDefault)
  /\ inRho = Fin(RhoDefault)
  /\ uploaded = NoFile
  /\ run = BlankPage("load")
  /\ call = Invoke(Num(MaxH), OmegaOf(Fin(OmegaRpmDefault)), Fin(GDefault),
                   Fin(RhoDefault), Fin(z0Default))

EngineCall(H, omega, g, rho_air, z0) ==
  /\ call' = Invoke(H, omega, g, rho_air, z0)
  /\ UNCHANGED <<mode, inH, inOmegaRpm, inG, inRho, uploaded, run>>

CallWithH ==
  \E h \in EngineH :
    /\ h /= call.args.H
    /\ EngineCall(h, call.args.omega, call.args.g, call.args.rho_air, call.args.z0)

CallWithRho ==
  \E r \in EngineRho :
    /\ r /= call.args.rho_air
    /\ EngineCall(call.args.H, call.args.omega, call.args.g, r, call.args.z0)

CallWithZ0 ==
  \E r \in EngineZ0 :
    /\ r /= call.args.z0
    /\ EngineCall(call.args.H, call.args.omega, call.args.g, call.args.rho_air, r)

CallWithOmegaG ==
  \E o \in EngineOmega, gg \in EngineG :
    /\ <<o, gg>> /= <<call.args.omega, call.args.g>>
    /\ EngineCall(call.args.H, o, gg, call.args.rho_air, call.args.z0)

EngineNext ==
  \/ CallWithH
  \/ CallWithRho
  \/ CallWithZ0
  \/ CallWithOmegaG

EngineSpec == EngineInit /\ [][EngineNext]_vars

\* ------------------------------------------------------------------------
\* Properties
\* ------------------------------------------------------------------------

\* a finite float of at most three decimals, in thousandths
Thousandths(a) ==
  IF a.e >= -3 THEN a.m * Pow10(a.e + 3)
  ELSE Sign(a.m) * (Abs(a.m) \div Pow10(-a.e - 3))

\* the floor of a float given in thousandths
FloorOfThousandths(t) ==
  CHOOSE n \in (t \div 1000 - 1)..(t \div 1000 + 1) : n * 1000 <= t /\ t < (n + 1) * 1000

FloorOf(a) == FloorOfThousandths(Thousandths(a))

\* a < 1, a >= 1, a <= 0, a > 0 for a float
BelowOne(a) == IsFin(a) /\ FLess(a, Num(1))
AtLeastOne(a) == IsFin(a) /\ ~FLess(a, Num(1))
Positive(a) == IsFin(a) /\ a.m > 0
NotPositive(a) == IsFin(a) /\ a.m <= 0

AllFinite(arr) == \A i \in 1..Len(arr) : IsFin(arr[i])

StrictlyIncreasing(arr) ==
  /\ AllFinite(arr)
  /\ \A i \in 1..(Len(arr) - 1) : FLess(arr[i], arr[i + 1])

\* the largest element of a non-empty array of finite floats
MaxOf(arr) == CHOOSE m \in {arr[i] : i \in 1..Len(arr)} :
                \A i \in 1..Len(arr) : ~FLess(m, arr[i])

\* every array of a returned bundle holds finite numbers only
BundleFinite(b) ==
  /\ AllFinite(b.vm) /\ AllFinite(b.Iv) /\ AllFinite(b.q_p)
  /\ AllFinite(b.Fwx) /\ AllFinite(b.Fwy) /\ IsFin(b.vm_max)

\* C1's invalid engine inputs: H < 1, z0 <= 0, rho_air <= 0, or the lowest
\* height level (z = 1) with z / z0 <= 1
InvalidEngineInput(a) ==
  \/ BelowOne(a.H)
  \/ NotPositive(a.z0)
  \/ NotPositive(a.rho_air)
  \/ AtLeastOne(a.z0)

\* C1: for every invalid engine input, calculate_wind_load fails with an
\* error and returns no result bundle (so never one that holds NaN or inf).
C1_InvalidInputFails ==
  (call.made /\ InvalidEngineInput(call.args)) => call.ret.status /= "ok"

\* ---- C2 ----

Separators == {",", ";"}

\* the maximal separator-free stretches <<i, j>> of a payload that hold at
\* least one character that is not whitespace: its tokens
TokenSpans(d) ==
  LET starts == { i \in 1..Len(d) :
                    d[i] \notin Separators /\ (i = 1 \/ d[i - 1] \in Separators) }
      ends == { j \in 1..Len(d) :
                  d[j] \notin Separators /\ (j = Len(d) \/ d[j + 1] \in Separators) }
  IN { sp \in starts \X ends :
         /\ sp[1] <= sp[2]
         /\ \A k \in sp[1]..sp[2] : d[k] \notin Separators
         /\ \E k \in sp[1]..sp[2] : d[k] \notin Whitespace }

\* the text of a token without the whitespace around it
TokenText(d, sp) ==
  LET first == CHOOSE i \in sp[1]..sp[2] :
                 d[i] \notin Whitespace /\ \A k \in sp[1]..(i - 1) : d[k] \in Whitespace
      last == CHOOSE j \in sp[1]..sp[2] :
                d[j] \notin Whitespace /\ \A k \in (j + 1)..sp[2] : d[k] \in Whitespace
  IN SubSeq(d, first, last)

AllIn(t, i, j, S) == \A k \in i..j : t[k] \in S

\* the decimal literals: [sign] digits [. digits] [(e|E) [sign] digits], with
\* a digit before or after the point
IsDecimalLiteral(t) ==
  \E a \in 0..1, ni \in 0..Len(t), d \in 0..1, nf \in 0..Len(t), e \in 0..1, es \in 0..1 :
    LET ne == Len(t) - (a + ni + d + nf + e + es)
        p1 == a + ni
        p2 == p1 + d + nf
        p3 == p2 + e + es
    IN /\ ne >= 0
       /\ (a = 1 => t[1] \in {"+", "-"})
       /\ AllIn(t, a + 1, p1, Digits)
       /\ (d = 1 => t[p1 + 1] = ".")
       /\ (d = 0 => nf = 0)
       /\ AllIn(t, p1 + d + 1, p2, Digits)
       /\ ni + nf >= 1
       /\ (e = 1 => t[p2 + 1] \in {"e", "E"} /\ ne >= 1)
       /\ (e = 0 => es = 0 /\ ne = 0)
       /\ (es = 1 => t[p2 + 2] \in {"+", "-"})
       /\ AllIn(t, p3 + 1, Len(t), Digits)

\* the special literals: [sign] inf | infinity | nan, in any case
IsSpecialLiteral(t) ==
  \E a \in 0..1 :
    /\ a <= Len(t)
    /\ (a = 1 => t[1] \in {"+", "-"})
    /\ LowerStr(SubSeq(t, a + 1, Len(t))) \in
         { <<"i", "n", "f">>, <<"i", "n", "f", "i", "n", "i", "t", "y">>,
           <<"n", "a", "n">> }

\* a numeric token: a text that Python's float() reads
IsNumericToken(t) == IsDecimalLiteral(t) \/ IsSpecialLiteral(t)

\* exactly four tokens, all numeric, in a decodable payload
FourNumericTokens(d) ==
  LET spans == TokenSpans(d)
  IN /\ \A i \in 1..Len(d) : d[i] /= BadByte
     /\ Cardinality(spans) = 4
     /\ \A sp \in spans : IsNumericToken(TokenText(d, sp))

\* the last run accepted the uploaded payload: the parameters are on the page
\* with the Calculate button, and no error is
Accepted == run.params /= <<>> /\ run.button /\ run.errors = {}

\* C2: an uploaded payload is accepted if and only if it consists of exactly
\* four comma-or-semicolon-separated tokens that are all numeric (texts that
\* float() reads); for every other payload an error is reported, the
\* Calculate button is not offered and calculate_wind_load is not invoked.
C2_AcceptedIffFourNumeric ==
  uploaded.present =>
    IF FourNumericTokens(uploaded.data) THEN Accepted
    ELSE /\ ~Accepted
         /\ run.errors /= {}
         /\ ~run.button
         /\ run.calls = 0
         /\ ~call.made

\* a payload of five numeric tokens has been uploaded and rejected
C2_Witness ==
  /\ uploaded.present
  /\ Cardinality(TokenSpans(uploaded.data)) = 5
  /\ \A sp \in TokenSpans(uploaded.data) : IsNumericToken(TokenText(uploaded.data, sp))
  /\ run.errors = {"count"}
  /\ ~run.button

\* ---- C3 ----

\* C3: no exception escapes a script run, whatever the input.
C3_NoExceptionEscapes == run.exc = "none"

\* ---- C4 ----

\* C4: for every H below 1 the computation is rejected before any array is
\* produced: no array has been constructed and no bundle is returned.
C4_RejectedBeforeArrays ==
  (call.made /\ BelowOne(call.args.H)) =>
    /\ call.ret.status /= "ok"
    /\ call.ret.built = {}

\* ---- C5 ----

\* C5: for every finite H >= 1, integer or fractional, the invocation returns
\* a height sequence of length floor(H) equal to 1, 2, ..., floor(H), strictly
\* increasing, and so does the invocation on int(H) that the callers make.
C5_HeightSequence ==
  (call.made /\ AtLeastOne(call.args.H)) =>
    LET n == FloorOf(call.args.H)
        truncated == calculate_wind_load(Num(n), call.args.omega, call.args.g,
                                         call.args.rho_air, call.args.z0)
    IN /\ call.ret.status = "ok"
       /\ Len(call.ret.bundle.z) = n
       /\ \A i \in 1..n : call.ret.bundle.z[i] = i
       /\ \A i \in 1..(n - 1) : call.ret.bundle.z[i] < call.ret.bundle.z[i + 1]
       /\ truncated.status = "ok"
       /\ truncated.bundle.z = call.ret.bundle.z

\* a fractional H of at least 2 has been passed and a bundle returned
C5_Witness ==
  /\ call.made
  /\ IsFin(call.args.H)
  /\ Thousandths(call.args.H) > 2000
  /\ Thousandths(call.args.H) % 1000 /= 0
  /\ call.ret.status = "ok"

\* ---- C6 ----

\* something of a result is on the page
ResultShown == run.success \/ run.metrics /= <<>> \/ run.chart

\* C6 as stated: each button press and each file upload triggers exactly one
\* invocation, completed before any result is shown.
C6_OneInvocationPerAction ==
  /\ run.trigger \in {"button", "upload"} => run.calls = 1 /\ call.made
  /\ ResultShown => run.calls = 1 /\ call.made /\ call.ret.status = "ok"

\* the H that a Calculate press passes to int()
HInEffect == IF mode = Manual THEN inH ELSE run.params[1]

\* C6 amended: a run makes at most one invocation; a press of Calculate makes
\* exactly one when the caller's int(H) returns (H finite) and none when it
\* raises; a file upload, like every other interaction, makes none; a result
\* is shown only in the run of a press, after its invocation has returned.
C6_OneInvocationPerPress ==
  /\ run.calls \in {0, 1}
  /\ run.calls = 1 <=> call.made
  /\ run.trigger = "button" => (run.calls = 1 <=> IsFin(HInEffect))
  /\ run.trigger /= "button" => run.calls = 0
  /\ ResultShown => run.trigger = "button" /\ run.calls = 1 /\ call.ret.status = "ok"

\* the Calculate button of the upload branch has been pressed and the result
\* of its one invocation is shown
C6_Witness ==
  /\ mode = Upload
  /\ run.trigger = "button"
  /\ run.calls = 1
  /\ run.success /\ run.chart /\ Len(run.metrics) = 3

\* ---- C7 ----

\* the decimal digits of a natural number
RECURSIVE NatStr(_)
NatStr(n) == IF n < 10 THEN <<DigitSeq[n + 1]>>
             ELSE NatStr(n \div 10) \o <<DigitSeq[(n % 10) + 1]>>

\* the digits of a fraction of f thousandths, without trailing zeros
FracStr(f) ==
  IF f % 100 = 0 THEN NatStr(f \div 100)
  ELSE IF f % 10 = 0 THEN NatStr(f \div 100) \o NatStr((f \div 10) % 10)
  ELSE NatStr(f \div 100) \o NatStr((f \div 10) % 10) \o NatStr(f % 10)

\* repr() of a finite non-negative float: 66.7, 2.0, 1.225
Repr(a) == NatStr(Thousandths(a) \div 1000) \o <<".">> \o FracStr(Thousandths(a) % 1000)

\* the four values written in the order H, g, rho_air, omega_rpm with commas
Serialize(v) ==
  Repr(v[1]) \o <<",">> \o Repr(v[2]) \o <<",">> \o Repr(v[3]) \o <<",">> \o Repr(v[4])

\* the quadruples <<H, g, rho_air, omega_rpm>> that are serialized
Quads ==
  {Fin(3700), Fin(500)} \X {Fin(1620), Fin(1225), Fin(2000)}
    \X {Fin(1620), Fin(1225), Fin(2000)} \X {Fin(1620), Fin(1225), Fin(2000)}

\* the text of every quadruple
Serialized == [v \in Quads |-> Serialize(v)]

\* what every serialized text is: digits and points around three commas
PlainText(d) ==
  /\ \A i \in 1..Len(d) : d[i] \in Digits \cup {".", ","}
  /\ Cardinality({i \in 1..Len(d) : d[i] = ","}) = 3

\* C7: four values serialized in the order H, g, rho_air, omega_rpm are
\* parsed back, in that order, to the same four values, and a press of
\* Calculate passes int(H), omega from omega_rpm, g and rho_air, the very
\* arguments that the manual branch passes for the same four values.
C7_ParseOrder ==
  (uploaded.present /\ PlainText(uploaded.data)) =>
  \A v \in Quads :
    uploaded.data = Serialized[v] =>
      /\ run.params = v
      /\ run.trigger = "button" =>
           /\ call.made
           /\ call.args.H = Num(FloorOf(v[1]))
           /\ call.args.g = v[2]
           /\ call.args.rho_air = v[3]
           /\ call.args.omega = OmegaOf(v[4])
           /\ call.args = ManualBranch("button", v[1], v[4], v[2], v[3], TRUE).call.args

\* "3.7,1.62,1.225,2.0" has been uploaded, parsed, and Calculate pressed
C7_Witness ==
  /\ uploaded.present
  /\ uploaded.data = Serialized[<<Fin(3700), Fin(1620), Fin(1225), Fin(2000)>>]
  /\ run.trigger = "button"
  /\ call.made
  /\ call.ret.status = "ok"

\* ---- C8 ----

\* C8: an invocation that differs from the one before it in omega and g only
\* returns the same outcome, bundle included.
C8_OmegaGIgnored ==
  [][ ( /\ call.made /\ call'.made
        /\ call'.args.H = call.args.H
        /\ call'.args.rho_air = call.args.rho_air
        /\ call'.args.z0 = call.args.z0 )
      => call'.ret = call.ret ]_vars

\* a bundle has been returned for an omega and a g other than the defaults
C8_Witness ==
  /\ call.made
  /\ call.args.omega = Fin(0)
  /\ call.args.g = Fin(1620)
  /\ call.ret.status = "ok"
  /\ Len(call.ret.bundle.z) >= 2

\* ---- C9 ----

\* C9: when a result is shown for a positive air density (the constants are
\* the defaults), vm, q_p, Fwx and Fwy are strictly increasing over the height
\* sequence, and the three metrics are the largest elements of vm, Fwx, Fwy.
C9_Monotone ==
  (run.success /\ Positive(call.args.rho_air)) =>
    /\ StrictlyIncreasing(call.ret.bundle.vm)
    /\ StrictlyIncreasing(call.ret.bundle.q_p)
    /\ StrictlyIncreasing(call.ret.bundle.Fwx)
    /\ StrictlyIncreasing(call.ret.bundle.Fwy)
    /\ run.metrics = << Format2f(MaxOf(call.ret.bundle.vm)),
                        Format2f(MaxOf(call.ret.bundle.Fwx)),
                        Format2f(MaxOf(call.ret.bundle.Fwy)) >>

\* a result over at least three height levels is shown
C9_Witness ==
  /\ run.success
  /\ Positive(call.args.rho_air)
  /\ Len(call.ret.bundle.z) >= 3
  /\ Len(run.metrics) = 3

\* ---- C10 ----

\* C10: in every returned bundle vm, Iv, q_p, Fwx and Fwy have as many
\* elements as z, and vm_max is the element of vm at the last index.
C10_CoIndexed ==
  (call.made /\ call.ret.status = "ok") =>
    LET b == call.ret.bundle
    IN /\ Len(b.z) >= 1
       /\ Len(b.vm) = Len(b.z)
       /\ Len(b.Iv) = Len(b.z)
       /\ Len(b.q_p) = Len(b.z)
       /\ Len(b.Fwx) = Len(b.z)
       /\ Len(b.Fwy) = Len(b.z)
       /\ b.vm_max = b.vm[Len(b.z)]

\* a bundle over at least two height levels has been returned
C10_Witness ==
  /\ call.made
  /\ call.ret.status = "ok"
  /\ call.args.rho_air = Fin(500)
  /\ Len(call.ret.bundle.z) >= 2
  /\ call.ret.bundle.vm[1] /= call.ret.bundle.vm[2]

====
